---- MODULE Spec2Model ----
(***************************************************************************)
(* The upload pipeline and the persistence of the gallery of               *)
(* src/src/App.tsx: validateFile, fileToBase64, handleFileUpload,          *)
(* deleteImage, and the two effects that load the gallery from             *)
(* localStorage['gallery-images'] on mount and save it after every change  *)
(* of the images state.                                                    *)
(*                                                                         *)
(* One action is one run-to-completion piece of the event loop: an event   *)
(* handler up to its first await, the continuation of an await, or one     *)
(* run of the passive effects of a committed render.                       *)
(***************************************************************************)
EXTENDS Integers, Sequences, FiniteSets, TLC

VARIABLES
    phase,          \* "unmounted" (page not loaded), "mounted", "crashed" (a render threw)
    storage,        \* the item stored under 'gallery-images'
    images,         \* useState<ImageData[]>: the in-memory gallery
    pendingSave,    \* values of images of committed renders whose save effect has not run yet
    uploading,      \* useState<boolean>
    uploadProgress, \* useState<number>, a fraction [num, den]
    previewFiles,   \* useState<File[]>
    batches,        \* the calls of handleFileUpload that have not returned, in call order
    completed,      \* history: the calls of handleFileUpload that returned, latest first
    now,            \* the clock read by Date.now()
    writeFailed,    \* history: a write to 'gallery-images' failed in this session
    savedGallery    \* history: the gallery the save effect last wrote without failure

vars == <<phase, storage, images, pendingSave, uploading, uploadProgress,
          previewFiles, batches, completed, now, writeFailed, savedGallery>>

----------------------------------------------------------------------------
(* Bounds of the model *)

MaxFiles == 2           \* files of one FileList
MaxUploads == 2         \* calls of handleFileUpload in flight at once
MaxCompleted == 1       \* returned calls the history keeps
MaxGallery == 2         \* records in the gallery
MaxClock == 2           \* values of the clock

----------------------------------------------------------------------------
(* Files: what a File of a FileList carries *)

File(n, s, t, c) == [name |-> n, size |-> s, type |-> t, content |-> c]

\* a.png of 2 MB; b.exe of 1 MB; e.jpg of exactly 10 MiB; x.jpg of 10 MiB + 1
FilePool ==
    { File(<<"a", ".", "p", "n", "g">>, 2097152, "image/png", "bytesA"),
      File(<<"b", ".", "e", "x", "e">>, 1048576, "application/exe", "bytesB"),
      File(<<"e", ".", "j", "p", "g">>, 10485760, "image/jpeg", "bytesE"),
      File(<<"x", ".", "j", "p", "g">>, 10485761, "image/jpeg", "bytesX") }

\* the values Math.random().toString(36).substr(2, 9) can return
RandomSuffixes == {"r1", "r2"}

Range(s) == {s[i] : i \in DOMAIN s}

\* the non-empty FileLists of at most n files
RECURSIVE FileLists(_)
FileLists(n) ==
    IF n = 0 THEN {}
    ELSE LET shorter == FileLists(n - 1)
         IN  {<<f>> : f \in FilePool} \cup shorter
               \cup {Append(fs, f) : fs \in shorter, f \in FilePool}

\* what handleDrop and handleInputChange can pass to handleFileUpload
FileListInputs == FileLists(MaxFiles)

----------------------------------------------------------------------------
(* validateFile *)

validTypes == {"image/jpeg", "image/jpg", "image/png", "image/gif", "image/webp"}

maxSize == 10 * 1024 * 1024

validateFile_ExclusiveLimit(file) ==
    IF file.type \notin validTypes THEN "invalid-type"
    ELSE IF file.size >= maxSize THEN "too-large"
    ELSE "ok"

\* returns "ok" where the code returns true, and the kind of Error it throws otherwise
validateFile(file) ==
    IF file.type \notin validTypes THEN "invalid-type"
    ELSE IF file.size > maxSize THEN "too-large"
    ELSE "ok"

\* the first loop of handleFileUpload: the files validateFile does not throw for
RECURSIVE ValidFiles(_)
ValidFiles(fileArray) ==
    IF fileArray = <<>> THEN <<>>
    ELSE IF validateFile(Head(fileArray)) = "ok"
         THEN <<Head(fileArray)>> \o ValidFiles(Tail(fileArray))
         ELSE ValidFiles(Tail(fileArray))

----------------------------------------------------------------------------
(* The record built for an encoded file *)

\* the result of FileReader.readAsDataURL: data:<mime>;base64,<payload>
DataURL(file) == [mime |-> file.type, base64 |-> file.content]

LastDot(name) ==
    LET dots == {i \in DOMAIN name : name[i] = "."}
    IN  IF dots = {} THEN 0 ELSE CHOOSE i \in dots : \A j \in dots : j <= i

\* file.name.replace(/\.[^/.]+$/, ""): the last dot and what follows it are
\* removed when at least one character follows and none of them is a slash
StripExtension(name) ==
    LET d == LastDot(name)
    IN  IF d = 0 \/ d = Len(name) \/ (\E j \in (d + 1)..Len(name) : name[j] = "/")
        THEN name
        ELSE SubSeq(name, 1, d - 1)

\* Date.now() + Math.random().toString(36).substr(2, 9): a string concatenation
NewId(time, suffix) == [time |-> time, rand |-> suffix]

ImageData(file, base64, time, suffix) ==
    [ id |-> NewId(time, suffix),
      name |-> StripExtension(file.name),
      originalName |-> file.name,
      src |-> base64,
      size |-> file.size,
      type |-> file.type,
      uploadDate |-> [iso |-> time] ]

\* ((i + 1) / validFiles.length) * 100, kept as a fraction
Progress(i, k) == [num |-> (i + 1) * 100, den |-> k]

Zero == [num |-> 0, den |-> 1]

----------------------------------------------------------------------------
(* JSON.stringify and JSON.parse of the gallery, and the stored item *)

Digits == <<"0", "1", "2", "3", "4", "5", "6", "7", "8", "9">>

RECURSIVE NumberToString(_)
NumberToString(n) ==
    IF n < 10 THEN <<Digits[n + 1]>>
    ELSE Append(NumberToString(n \div 10), Digits[(n % 10) + 1])

DigitValue(d) == CHOOSE k \in 0..9 : Digits[k + 1] = d

RECURSIVE StringToNumber(_)
StringToNumber(ds) ==
    IF ds = <<>> THEN 0
    ELSE 10 * StringToNumber(SubSeq(ds, 1, Len(ds) - 1)) + DigitValue(ds[Len(ds)])

JsonString(k, s) == [key |-> k, json |-> "string", text |-> s]
JsonNumber(k, n) == [key |-> k, json |-> "number", text |-> NumberToString(n)]

\* the members of an ImageData object, in the order the object literal sets them
StringifyRecord(r) ==
    << JsonString("id", r.id),
       JsonString("name", r.name),
       JsonString("originalName", r.originalName),
       JsonString("src", r.src),
       JsonNumber("size", r.size),
       JsonString("type", r.type),
       JsonString("uploadDate", r.uploadDate) >>

\* the item localStorage holds: nothing, the empty string, a text that is not
\* JSON, a JSON text that is not an array (null, 42, {"a":1}), or a JSON array
Stored(kind, items) == [kind |-> kind, items |-> items]

Absent == Stored("absent", <<>>)

JSONstringify_DropsLast(value) ==
    Stored("array", [i \in 1..(Len(value) - 1) |-> StringifyRecord(value[i])])

JSONstringify(value) ==
    Stored("array", [i \in 1..Len(value) |-> StringifyRecord(value[i])])

Member(entries, k) == (CHOOSE e \in Range(entries) : e.key = k).text

ParseRecord(entries) ==
    [ id |-> Member(entries, "id"),
      name |-> Member(entries, "name"),
      originalName |-> Member(entries, "originalName"),
      src |-> Member(entries, "src"),
      size |-> StringToNumber(Member(entries, "size")),
      type |-> Member(entries, "type"),
      uploadDate |-> Member(entries, "uploadDate") ]

\* threw: JSON.parse throws a SyntaxError; array: the value is an array
JSONparse(item) ==
    IF item.kind = "array"
    THEN [threw |-> FALSE, array |-> TRUE,
          value |-> [i \in 1..Len(item.items) |-> ParseRecord(item.items[i])]]
    ELSE IF item.kind = "other"
    THEN [threw |-> FALSE, array |-> FALSE, value |-> <<>>]
    ELSE [threw |-> TRUE, array |-> FALSE, value |-> <<>>]

setItem_FailureClears(item, value, ok) == IF ok THEN value ELSE Absent

\* localStorage.setItem: the item is replaced, or the call throws and the item stays
setItem(item, value, ok) == IF ok THEN value ELSE item

----------------------------------------------------------------------------
(* The mount effects: load on mount (lines 39-57), save on change (60-66) *)

\* The load effect: called is whether it calls setImages, array whether the
\* value it passes is an array, value the array passed
LoadEffect(item) ==
    IF item.kind \in {"absent", "empty"}
    THEN [called |-> FALSE, array |-> TRUE, value |-> <<>>]
    ELSE LET parsed == JSONparse(item)
         IN  IF parsed.threw
             THEN [called |-> TRUE, array |-> TRUE, value |-> <<>>]
             ELSE [called |-> TRUE, array |-> parsed.array, value |-> parsed.value]

\* One pass of the effects of the first render, in which images is []: the
\* load effect reads the item, then the save effect writes JSON.stringify([])
MountPass(item, ok) ==
    [ load |-> LoadEffect(item),
      item |-> setItem(item, JSONstringify(<<>>), ok),
      failed |-> ~ok ]


----------------------------------------------------------------------------
(* handleFileUpload *)

FlushRecords_Prepends(prev, newImages) == newImages \o prev

FlushRecords_DropsFirst(prev, newImages) == prev \o Tail(newImages)

\* the updater of setImages at line 168
FlushRecords(prev, newImages) == prev \o newImages

IndexAfterCatch_LeavesLoop(i, k) == k

\* the catch at line 162 is inside the for loop: the loop goes on with i + 1
IndexAfterCatch(i, k) == i + 1

FinallyState_KeepsUploading ==
    [uploading |-> TRUE, uploadProgress |-> Zero, previewFiles |-> <<>>]

\* the finally block, lines 173-180
FinallyState ==
    [uploading |-> FALSE, uploadProgress |-> Zero, previewFiles |-> <<>>]

\* A call of handleFileUpload that is suspended: at the await of
\* fileToBase64(validFiles[i]) (pc = "encoding") or at the await of the 100 ms
\* timer (pc = "pause"). settled and progressLog are history: the outcomes of
\* its encodes and the values it passed to setUploadProgress so far.
Batch(pc, valid, i, newImages, settled, log) ==
    [ pc |-> pc, validFiles |-> valid, i |-> i,
      newImages |-> newImages, settled |-> settled, progressLog |-> log ]

\* A call that returned: its promise is resolved, its locals are gone
Returned(settled, log) ==
    [ settled |-> settled, progressLog |-> log, result |-> "resolved" ]

Remove(seq, b) == [j \in 1..(Len(seq) - 1) |-> IF j < b THEN seq[j] ELSE seq[j + 1]]

Keep(seq, n) == SubSeq(seq, 1, IF Len(seq) < n THEN Len(seq) ELSE n)

\* records the gallery can still receive from the calls in flight
RECURSIVE Expected(_)
Expected(seq) ==
    IF seq = <<>> THEN 0 ELSE Len(Head(seq).validFiles) + Expected(Tail(seq))

\* React runs the pending effects of a committed render before it renders
\* again, so a render that changes images finds the save effect of the
\* previous one done
EffectsFlushed == pendingSave = <<>>

\* The end of the call once the loop is left: the flush (lines 167-169) and
\* the finally block
Finish(b, newImages, settled, log) ==
    /\ batches' = Remove(batches, b)
    /\ completed' = Keep(<<Returned(settled, Append(log, FinallyState.uploadProgress))>>
                         \o completed, MaxCompleted)
    /\ IF newImages # <<>>
       THEN /\ EffectsFlushed
            /\ images' = FlushRecords(images, newImages)
            /\ pendingSave' = <<images'>>
       ELSE UNCHANGED <<images, pendingSave>>
    /\ uploading' = FinallyState.uploading
    /\ uploadProgress' = FinallyState.uploadProgress
    /\ previewFiles' = FinallyState.previewFiles

\* handleDrop and handleInputChange call handleFileUpload(files) when files[0]
\* exists. The call runs to its first await: the validation loop, then either
\* the throw of line 130, caught at 171 and followed by the finally block, or
\* the start of the encode of validFiles[0].
handleFileUpload(files) ==
    /\ phase = "mounted"
    /\ Len(batches) < MaxUploads
    /\ LET valid == ValidFiles(files)
       IN  /\ Len(images) + Expected(batches) + Len(valid) <= MaxGallery
           /\ IF valid = <<>>
              THEN /\ completed' = Keep(<<Returned(<<>>, <<Zero, FinallyState.uploadProgress>>)>>
                                        \o completed, MaxCompleted)
                   /\ uploading' = FinallyState.uploading
                   /\ uploadProgress' = FinallyState.uploadProgress
                   /\ previewFiles' = FinallyState.previewFiles
                   /\ UNCHANGED batches
              ELSE /\ batches' = Append(batches,
                        Batch("encoding", valid, 0, <<>>, <<>>, <<Zero>>))
                   /\ uploading' = TRUE
                   /\ uploadProgress' = Zero
                   /\ UNCHANGED <<previewFiles, completed>>
    /\ UNCHANGED <<phase, storage, images, pendingSave, now, writeFailed,
                   savedGallery>>

\* reader.onload: fileToBase64 resolves and the loop body runs to its end.
\* time is what Date.now() returns, suffix what Math.random() yields. The
\* clock is left room for the pause that follows a file that is not the last.
EncodeResolve(b, time, suffix) ==
    /\ phase = "mounted"
    /\ batches[b].pc = "encoding"
    /\ time >= now
    /\ batches[b].i < Len(batches[b].validFiles) - 1 => time < MaxClock
    /\ now' = time
    /\ LET st == batches[b]
           k == Len(st.validFiles)
           file == st.validFiles[st.i + 1]
           imageData == ImageData(file, DataURL(file), time, suffix)
           newImages == Append(st.newImages, imageData)
           progress == Progress(st.i, k)
           settled == Append(st.settled, "resolved")
           log == Append(st.progressLog, progress)
       IN  IF st.i < k - 1
           THEN /\ batches' = [batches EXCEPT ![b] =
                      Batch("pause", st.validFiles, st.i, newImages, settled, log)]
                /\ uploadProgress' = progress
                /\ UNCHANGED <<images, pendingSave, uploading, previewFiles, completed>>
           ELSE Finish(b, newImages, settled, log)
    /\ UNCHANGED <<phase, storage, writeFailed, savedGallery>>

\* reader.onerror: fileToBase64 rejects, the catch of line 162 logs the error
EncodeReject(b) ==
    /\ phase = "mounted"
    /\ batches[b].pc = "encoding"
    /\ LET st == batches[b]
           k == Len(st.validFiles)
           next == IndexAfterCatch(st.i, k)
           settled == Append(st.settled, "rejected")
       IN  IF next < k
           THEN /\ batches' = [batches EXCEPT ![b] =
                      Batch("encoding", st.validFiles, next, st.newImages, settled,
                            st.progressLog)]
                /\ UNCHANGED <<images, pendingSave, uploading, uploadProgress,
                               previewFiles, completed>>
           ELSE Finish(b, st.newImages, settled, st.progressLog)
    /\ UNCHANGED <<phase, storage, now, writeFailed, savedGallery>>

\* the 100 ms timer of line 159 fires, at a time later than the one the record
\* before the pause was stamped with: the loop goes on with the next file
TimerFires(b, time) ==
    /\ phase = "mounted"
    /\ batches[b].pc = "pause"
    /\ time >= now
    /\ time > batches[b].newImages[Len(batches[b].newImages)].id.time
    /\ now' = time
    /\ batches' = [batches EXCEPT ![b].pc = "encoding", ![b].i = @ + 1]
    /\ UNCHANGED <<phase, storage, images, pendingSave, uploading, uploadProgress,
                   previewFiles, completed, writeFailed, savedGallery>>

----------------------------------------------------------------------------
(* deleteImage *)

\* the updater of setImages at line 213
deleteFilter(prev, imageId) == SelectSeq(prev, LAMBDA img : img.id # imageId)

\* an id no record has
AbsentId == NewId(0, "none")

deleteImage(imageId) ==
    /\ phase = "mounted"
    /\ EffectsFlushed
    /\ images' = deleteFilter(images, imageId)
    /\ pendingSave' = <<images'>>
    /\ UNCHANGED <<phase, storage, uploading, uploadProgress, previewFiles, batches,
                   completed, now, writeFailed, savedGallery>>

----------------------------------------------------------------------------
(* The effects *)

\* The render after the mount effects applies the last setImages of the load
\* effect; images.filter (line 217) throws in it when the value is not an array
AfterMount(item, load, failed, wrote) ==
    /\ storage' = item
    /\ writeFailed' = failed
    /\ savedGallery' = IF wrote THEN [valid |-> TRUE, g |-> <<>>] ELSE savedGallery
    /\ IF load.called /\ ~load.array
       THEN /\ phase' = "crashed"
            /\ images' = <<>>
            /\ pendingSave' = <<>>
       ELSE /\ phase' = "mounted"
            /\ images' = load.value
            /\ pendingSave' = IF load.called THEN <<load.value>> ELSE <<>>
    /\ UNCHANGED <<uploading, uploadProgress, previewFiles, batches, completed, now>>

\* The page is loaded: the first render (images = []) is committed and its
\* effects run once, the load effect before the save effect
Mount(ok) ==
    /\ phase = "unmounted"
    /\ LET first == MountPass(storage, ok)
       IN  AfterMount(first.item, first.load, first.failed, ok)

\* The same under React's StrictMode in development: the mount effects run a
\* second time before the state update of the first load is applied
MountStrict(ok1, ok2) ==
    /\ phase = "unmounted"
    /\ LET first == MountPass(storage, ok1)
           second == MountPass(first.item, ok2)
       IN  AfterMount(second.item,
                      IF second.load.called THEN second.load ELSE first.load,
                      first.failed \/ second.failed, ok1 \/ ok2)

\* The save effect of the committed render, lines 60-66
SaveEffect(ok) ==
    /\ phase = "mounted"
    /\ pendingSave # <<>>
    /\ storage' = setItem(storage, JSONstringify(Head(pendingSave)), ok)
    /\ pendingSave' = Tail(pendingSave)
    /\ writeFailed' = (writeFailed \/ ~ok)
    /\ savedGallery' = IF ok THEN [valid |-> TRUE, g |-> Head(pendingSave)]
                       ELSE savedGallery
    /\ UNCHANGED <<phase, images, uploading, uploadProgress, previewFiles, batches,
                   completed, now>>

\* The page is closed or reloaded: the state of the component and the calls
\* in flight are gone, the stored item stays
Unload ==
    /\ phase # "unmounted"
    /\ phase' = "unmounted"
    /\ images' = <<>>
    /\ pendingSave' = <<>>
    /\ uploading' = FALSE
    /\ uploadProgress' = Zero
    /\ previewFiles' = <<>>
    /\ batches' = <<>>
    /\ completed' = <<>>
    /\ writeFailed' = FALSE
    /\ UNCHANGED <<storage, now, savedGallery>>

----------------------------------------------------------------------------

\* what the stored item can be before the first page load
InitialItems ==
    { Absent, Stored("empty", <<>>), Stored("garbage", <<>>), Stored("other", <<>>),
      Stored("array", <<>>) }

Init ==
    /\ phase = "unmounted"
    /\ storage \in InitialItems
    /\ images = <<>>
    /\ pendingSave = <<>>
    /\ uploading = FALSE
    /\ uploadProgress = Zero
    /\ previewFiles = <<>>
    /\ batches = <<>>
    /\ completed = <<>>
    /\ now = 1
    /\ writeFailed = FALSE
    /\ savedGallery = [valid |-> FALSE, g |-> <<>>]

Ids == {images[i].id : i \in DOMAIN images} \cup {AbsentId}

Next ==
    \/ \E ok \in BOOLEAN : Mount(ok)
    \/ \E ok1, ok2 \in BOOLEAN : MountStrict(ok1, ok2)
    \/ \E files \in FileListInputs : handleFileUpload(files)
    \/ \E b \in DOMAIN batches, time \in 1..MaxClock, suffix \in RandomSuffixes :
            EncodeResolve(b, time, suffix)
    \/ \E b \in DOMAIN batches : EncodeReject(b)
    \/ \E b \in DOMAIN batches, time \in 1..MaxClock : TimerFires(b, time)
    \/ \E imageId \in Ids : deleteImage(imageId)
    \/ \E ok \in BOOLEAN : SaveEffect(ok)
    \/ Unload

Spec == Init /\ [][Next]_vars

\* The encode that the suspended call b awaits settles: onload or onerror
Settles(b) ==
    /\ b \in DOMAIN batches
    /\ \/ \E time \in 1..MaxClock, suffix \in RandomSuffixes : EncodeResolve(b, time, suffix)
       \/ EncodeReject(b)

\* The timer that the suspended call b awaits fires
Resumes(b) ==
    /\ b \in DOMAIN batches
    /\ \E time \in 1..MaxClock : TimerFires(b, time)

\* What the event loop owes the program: every FileReader started at line 96
\* fires onload or onerror, every timer set at line 159 fires, and React
\* runs the effects of a committed render. A pending effect can only delay
\* the continuation of an await (it is flushed first), never cancel it, hence
\* the strong fairness of Settles.
LiveSpec ==
    /\ Spec
    /\ \A b \in 1..MaxUploads : SF_vars(Settles(b)) /\ WF_vars(Resumes(b))
    /\ WF_vars(\E ok \in BOOLEAN : SaveEffect(ok))

----------------------------------------------------------------------------
(* What the properties below are stated with *)

\* the acceptance policy as the specification words it
Accepted(file) ==
    /\ file.type \in {"image/jpeg", "image/jpg", "image/png", "image/gif", "image/webp"}
    /\ file.size <= 10485760

ProbeTypes ==
    {"image/jpeg", "image/jpg", "image/png", "image/gif", "image/webp",
     "application/exe", "image/svg+xml", "IMAGE/PNG", ""}

ProbeSizes == {0, 10485759, 10485760, 10485761, 11534336}

ProbeFiles == [name : {<<"p">>}, size : ProbeSizes, type : ProbeTypes, content : {"bytesP"}]

\* the file a record was built from
FileOf(r) == File(r.originalName, r.size, r.type, r.src.base64)

Sources(records) == [j \in 1..Len(records) |-> FileOf(records[j])]

\* the files among valid whose encode resolved
RECURSIVE Resolved(_, _)
Resolved(valid, settled) ==
    IF valid = <<>> \/ settled = <<>> THEN <<>>
    ELSE (IF Head(settled) = "resolved" THEN <<Head(valid)>> ELSE <<>>)
            \o Resolved(Tail(valid), Tail(settled))

\* this step is the return of the suspended call b
Completes(b) ==
    /\ phase' = "mounted"
    /\ Len(batches') = Len(batches) - 1
    /\ batches' = Remove(batches, b)

\* what the step appended to the gallery
Appended == SubSeq(images', Len(images) + 1, Len(images'))

KeepsGallery == SubSeq(images', 1, Len(images)) = images

NoneAccepted(files) == \A j \in DOMAIN files : ~Accepted(files[j])

----------------------------------------------------------------------------
(* C1: when a batch of which K files pass validateFile completes, the
   gallery is the gallery before followed by exactly K new records, one per
   valid file in the order submitted, whatever the outcome of the encodes.
   Fails: a file whose encode rejects yields no record. *)
C1_OneRecordPerValidFile ==
    [][ /\ \A b \in DOMAIN batches : Completes(b) =>
                /\ KeepsGallery
                /\ Sources(Appended) = batches[b].validFiles
        /\ \A files \in FileListInputs :
                NoneAccepted(files) /\ handleFileUpload(files) => images' = images
      ]_vars

(* C1 as amended: when a batch completes, the gallery is the gallery just
   before the flush followed by one new record per valid file whose encode
   resolved, in the order submitted; every valid file's encode has settled
   by then, and a batch without a valid file leaves the gallery as it is. *)
C1_OneRecordPerResolvedFile ==
    [][ /\ \A b \in DOMAIN batches : Completes(b) =>
                /\ KeepsGallery
                /\ Len(completed'[1].settled) = Len(batches[b].validFiles)
                /\ Sources(Appended) =
                        Resolved(batches[b].validFiles, completed'[1].settled)
        /\ \A files \in FileListInputs :
                NoneAccepted(files) /\ handleFileUpload(files) => images' = images
      ]_vars

\* a batch of two valid files returned, the first encode rejected, the second
\* resolved, and its record is in the gallery
C1_Witness ==
    /\ completed # <<>>
    /\ completed[1].settled = <<"rejected", "resolved">>
    /\ Len(images) = 1

(* C2: the values a batch of K >= 1 valid files passes to setUploadProgress
   between the reset to 0 at its start and the reset at its end are exactly
   100*1/K, 100*2/K, ..., 100*K/K, also when an encode rejects. Fails: no
   value is written for a file whose encode rejects. *)
C2_ProgressPassesEveryStep ==
    \A n \in DOMAIN completed :
        LET c == completed[n]
            k == Len(c.settled)
        IN  k >= 1 =>
              /\ Len(c.progressLog) = k + 2
              /\ c.progressLog[1] = Zero
              /\ c.progressLog[k + 2] = Zero
              /\ \A j \in 1..k :
                    c.progressLog[j + 1].num * k = 100 * j * c.progressLog[j + 1].den

(* C3: validateFile accepts a file exactly when its type is one of the five
   image types and its size is at most 10,485,760 bytes; a rejected file
   yields no record, and the files after it are still validated. *)
C3_ValidationPolicy ==
    /\ [](/\ \A f \in ProbeFiles \cup FilePool : (validateFile(f) = "ok") <=> Accepted(f)
          /\ \A j \in DOMAIN images : Accepted(FileOf(images[j]))
          /\ \A b \in DOMAIN batches :
                \A j \in DOMAIN batches[b].newImages :
                    Accepted(FileOf(batches[b].newImages[j])))
    /\ [][ \A files \in FileListInputs : handleFileUpload(files) =>
                IF NoneAccepted(files)
                THEN batches' = batches
                ELSE /\ Len(batches') = Len(batches) + 1
                     /\ batches'[Len(batches')].validFiles = SelectSeq(files, Accepted)
         ]_vars

\* the record of a file of exactly 10 MiB is in the gallery, and a call is
\* suspended whose only valid file is that one
C3_Witness ==
    /\ \E j \in DOMAIN images : images[j].size = 10485760
    /\ \E b \in DOMAIN batches :
            /\ Len(batches[b].validFiles) = 1
            /\ batches[b].validFiles[1].size = 10485760

(* C4: a rejected encode is caught inside the loop: the next valid file is
   encoded, the failed file adds no record, and when every encode of the
   batch rejected, setImages is not called and the gallery stays as it is. *)
C4_RejectedEncodeIsSkipped ==
    /\ [](\A b \in DOMAIN batches :
              Sources(batches[b].newImages)
                  = Resolved(batches[b].validFiles, batches[b].settled))
    /\ [][ \A b \in DOMAIN batches : EncodeReject(b) =>
                IF batches[b].i + 1 < Len(batches[b].validFiles)
                THEN /\ Len(batches') = Len(batches)
                     /\ batches'[b].pc = "encoding"
                     /\ batches'[b].i = batches[b].i + 1
                     /\ batches'[b].newImages = batches[b].newImages
                     /\ images' = images
                ELSE /\ Completes(b)
                     /\ batches[b].newImages = <<>> =>
                            /\ images' = images
                            /\ pendingSave' = pendingSave
         ]_vars

\* a batch of two valid files returned after both encodes rejected
C4_Witness ==
    /\ completed # <<>>
    /\ completed[1].settled = <<"rejected", "rejected">>
    /\ images = <<>>
    /\ pendingSave = <<>>

(* C5: a batch all of whose files validateFile rejects starts no encode,
   its promise resolves, the gallery and the stored item are unchanged, and
   uploading and uploadProgress are false and 0 when the call returns. *)
C5_NoValidFilesIsANoOp ==
    [][ \A files \in FileListInputs :
            NoneAccepted(files) /\ handleFileUpload(files) =>
                /\ batches' = batches
                /\ completed'[1].settled = <<>>
                /\ completed'[1].result = "resolved"
                /\ images' = images
                /\ storage' = storage
                /\ pendingSave' = pendingSave
                /\ uploading' = FALSE
                /\ uploadProgress' = Zero
      ]_vars

\* a call without a valid file returned while the gallery holds a record
C5_Witness ==
    /\ phase = "mounted"
    /\ completed # <<>>
    /\ completed[1].settled = <<>>
    /\ images # <<>>
    /\ ~uploading

(* C6: deleteImage(id) removes exactly the one record with that id and
   leaves the other records and their order unchanged; without such a record
   the gallery is unchanged. Fails: two records can carry the same id. *)
C6_DeleteRemovesExactlyOne ==
    [][ \A imageId \in Ids : deleteImage(imageId) =>
            IF \A j \in DOMAIN images : images[j].id # imageId
            THEN images' = images
            ELSE \E j \in DOMAIN images :
                    /\ images[j].id = imageId
                    /\ images' = Remove(images, j)
      ]_vars

(* C7: a gallery the save effect wrote without failure is, after the startup
   of a new session (the load effect, then the save effect), the in-memory
   gallery again, record by record and field by field. *)
C7_RoundTrip ==
    [][ \A ok \in BOOLEAN :
            Mount(ok) /\ savedGallery.valid =>
                /\ phase' = "mounted"
                /\ images' = savedGallery.g
                /\ pendingSave' = <<savedGallery.g>>
      ]_vars

\* a new session has loaded a gallery of two records
C7_Witness ==
    /\ phase = "mounted"
    /\ batches = <<>>
    /\ completed = <<>>
    /\ Len(images) = 2
    /\ savedGallery.valid
    /\ pendingSave = <<images>>

(* C8: a failed write is caught in the save effect: the in-memory gallery
   keeps the mutated value, the stored item keeps its content, nothing else
   is disturbed, and deletes go on working on the in-memory gallery. *)
C8_WriteFailureIsContained ==
    /\ [](phase = "mounted" /\ writeFailed /\ EffectsFlushed
            => ENABLED deleteImage(AbsentId))
    /\ [][ SaveEffect(FALSE) =>
                /\ images' = images
                /\ storage' = storage
                /\ batches' = batches
                /\ phase' = "mounted"
         ]_vars

\* after a failed write the gallery went on growing while the stored item
\* still is the empty array
C8_Witness ==
    /\ phase = "mounted"
    /\ writeFailed
    /\ Len(images) = 2
    /\ storage = Stored("array", <<>>)

(* C9: whatever string is stored under 'gallery-images', the startup carries
   no error on and leaves the in-memory gallery a sequence of records.
   Fails: a stored JSON text that is not an array is passed to setImages
   and the next render throws. *)
C9_LoadLeavesAGallery == phase # "crashed"

(* C10: every change of the gallery, by the flush of a batch or by
   deleteImage, is written to 'gallery-images' in the same step, provided no
   write has failed. Fails: the write is left to the save effect, which runs
   in a later step. *)
C10_PersistsInTheSameStep ==
    [][ phase = "mounted" /\ phase' = "mounted" /\ images' # images /\ ~writeFailed'
            => storage' = JSONstringify(images')
      ]_vars

(* C11: every call of handleFileUpload that is suspended at an await
   returns, given that every encode settles, unless the page is closed
   first. While the call is suspended the gallery holds none of its records;
   the step in which it returns appends all the accumulated records in one
   update and leaves uploading false, uploadProgress 0 and the preview list
   empty, whether all, some or none of the encodes resolved.
   The calls in flight are queued in call order, so the call at place b
   either returns or moves to a lower place when an older one returns:
   for every place b, either no call stays at place b or beyond for ever,
   or again and again a call at a place up to b returns or the page closes. *)
C11_BatchCompletesWithOneFlush ==
    /\ [][ /\ \A b \in DOMAIN batches : Completes(b) =>
                LET st == batches[b]
                    n == Len(st.newImages)
                IN  /\ KeepsGallery
                    /\ \/ Appended = st.newImages
                       \/ /\ Len(Appended) = n + 1
                          /\ SubSeq(Appended, 1, n) = st.newImages
                          /\ FileOf(Appended[n + 1]) = st.validFiles[Len(st.validFiles)]
                    /\ uploading' = FALSE
                    /\ uploadProgress' = Zero
                    /\ previewFiles' = <<>>
           /\ (/\ batches' # batches
               /\ phase' = "mounted"
               /\ Len(batches') >= Len(batches)) => images' = images ]_vars
    /\ \A b \in 1..MaxUploads :
            \/ <>[](Len(batches) < b)
            \/ []<><<(\E c \in 1..b : c \in DOMAIN batches /\ Completes(c)) \/ Unload>>_vars

C11_Witness ==
    /\ batches = <<>>
    /\ completed # <<>>
    /\ completed[1].settled = <<"resolved", "resolved">>
    /\ Len(images) = 2
    /\ uploading = FALSE
    /\ uploadProgress = Zero
    /\ previewFiles = <<>>

(* C12: files are encoded strictly one after the other: in every state at
   most one encode (fileToBase64) is in flight, also when a drop or a file
   selection arrives while an earlier batch is suspended. Fails: a second
   call of handleFileUpload starts its own encode beside the first one. *)
C12_AtMostOneEncodeInFlight ==
    Cardinality({b \in DOMAIN batches : batches[b].pc = "encoding"}) <= 1

(* C13: the startup never changes a JSON array stored under
   'gallery-images': the effects that run on mount, once or twice in a row,
   leave the stored item as it is. Fails: the save effect of the first
   render writes the empty array over it. *)
C13_StartupKeepsStoredGallery ==
    [][ phase = "unmounted" /\ storage.kind = "array" => storage' = storage ]_vars

====
